---- MODULE Spec2Model ----
(***************************************************************************)
(* Model of the browser engine of src/src/main.rs: the tokenizer           *)
(* (Browser::lex), the font cache (FontManager::get_fonts), the layout     *)
(* engine (Layout::token / Layout::word), the renderer (Browser::draw: its  *)
(* culling loop and its pixel writes), the scroll controller (scrolldown / *)
(* scrollup / reset_scroll / resize_browser) and the event loop of main    *)
(* with its pixel buffer.                                                  *)
(*                                                                         *)
(* Strings are sequences of one-character strings.                         *)
(*                                                                         *)
(* u32 values: the program computes in unsigned 32-bit integers.  A u32    *)
(* value v is held here as the integer with the same 32-bit pattern read   *)
(* as two's complement: v itself when v < 2^31, and v - 2^32 otherwise.    *)
(* Addition and subtraction modulo 2^32 are then plain + and - (as long    *)
(* as the result stays inside the 32-bit range, which the bounds of the    *)
(* model guarantee), and the unsigned order is U32Lt below.  A negative    *)
(* held value therefore stands for a u32 of at least 2^31: the result of   *)
(* a subtraction that wrapped around.                                      *)
(***************************************************************************)
EXTENDS Integers, Sequences, FiniteSets, TLC

VARIABLES
    overflow_checks,  \* build profile: TRUE = arithmetic overflow panics (debug), FALSE = wraps (release)
    width,            \* Browser.width
    height,           \* Browser.height
    scroll,           \* Browser.scroll
    tokens,           \* Browser.tokens
    display_list,     \* Browser.display_list
    cached_fonts,     \* FontManager.cached_fonts: FontProperties -> handle
    font_loads,       \* number of fonts the font source has loaded (handles leaked so far)
    panicked,         \* the process has panicked (it is gone: nothing runs after that)
    body,             \* the body handed to the latest lex / load
    loads,            \* number of completed or attempted Browser::load calls
    last_op,          \* the handler that ran in the latest step ("resize_same": a resize to the size in force)
    visited,          \* draw: indices of the display-list entries the outer loop iterated, in order
    rasterized,       \* draw: <<run index, glyph index>> of every glyph that was outlined and drawn
    writes,           \* draw: the pixels the latest draw wrote, each [gx, gy, idx, alpha]
    frame_width,      \* width of the pixel buffer (Pixels::new, resize_buffer)
    frame_height,     \* height of the pixel buffer
    frame,            \* content of the pixel buffer: [base, px], the pixels px written over the base
    presented         \* the frame content last handed to pixels.render()

vars == <<overflow_checks, width, height, scroll, tokens, display_list, cached_fonts,
          font_loads, panicked, body, loads, last_op, visited, rasterized, writes,
          frame_width, frame_height, frame, presented>>

----------------------------------------------------------------------------
(* Program constants *)

VSTEP == 40
HSTEP == 40
SCROLL_STEP == 20
DEFAULT_FONT_SIZE == 16
MAIN_WIDTH == 800
MAIN_HEIGHT == 600

----------------------------------------------------------------------------
(* u32 arithmetic (see the header for the representation) *)

U32Lt(a, b) == IF (a < 0) = (b < 0) THEN a < b ELSE b < 0
U32Ge(a, b) == ~U32Lt(a, b)
U32Gt(a, b) == U32Lt(b, a)
U32Min(a, b) == IF U32Lt(b, a) THEN b ELSE a
U32Max(a, b) == IF U32Lt(a, b) THEN b ELSE a

\* a - b on u32: the wrapped result, and whether the subtraction overflowed
U32Sub(a, b) == [val |-> a - b, overflow |-> U32Lt(a, b)]
\* a + b on u32: the sum passes 2^32 exactly when the held sum of a value at
\* or above 2^31 and a value below it comes out non-negative
U32Add(a, b) == [val |-> a + b,
                 overflow |-> ((a < 0) /\ (b >= 0) /\ (a + b >= 0))
                              \/ ((b < 0) /\ (a >= 0) /\ (a + b >= 0))
                              \/ ((a < 0) /\ (b < 0))]

----------------------------------------------------------------------------
(* Tokens and the tokenizer, Browser::lex *)

Tag(s) == [kind |-> "Tag", s |-> s]
Text(s) == [kind |-> "Text", s |-> s]

LexInit == [out |-> <<>>, buffer |-> <<>>, in_tag |-> FALSE]

\* a tokenizer that forgets to clear the buffer after emitting a tag
LexChar_KeepsTagName(st, c) ==
    IF c = "<"
    THEN IF st.buffer # <<>>
         THEN [out |-> Append(st.out, Text(st.buffer)), buffer |-> <<>>, in_tag |-> TRUE]
         ELSE [st EXCEPT !.in_tag = TRUE]
    ELSE IF c = ">"
    THEN [out |-> Append(st.out, Tag(st.buffer)), buffer |-> st.buffer, in_tag |-> FALSE]
    ELSE [st EXCEPT !.buffer = Append(st.buffer, c)]

\* one iteration of the loop over body.chars()
LexChar(st, c) ==
    IF c = "<"
    THEN IF st.buffer # <<>>
         THEN [out |-> Append(st.out, Text(st.buffer)), buffer |-> <<>>, in_tag |-> TRUE]
         ELSE [st EXCEPT !.in_tag = TRUE]
    ELSE IF c = ">"
    THEN [out |-> Append(st.out, Tag(st.buffer)), buffer |-> <<>>, in_tag |-> FALSE]
    ELSE [st EXCEPT !.buffer = Append(st.buffer, c)]

RECURSIVE LexLoop(_, _, _)
LexLoop(b, i, st) ==
    IF i > Len(b) THEN st ELSE LexLoop(b, i + 1, LexChar(st, b[i]))

\* a flush that also emits what an unterminated tag left in the buffer
LexEnd_FlushesOpenTag(st) ==
    IF st.buffer # <<>>
    THEN Append(st.out, Text(st.buffer))
    ELSE st.out

\* the flush after the loop
LexEnd(st) ==
    IF ~st.in_tag /\ st.buffer # <<>>
    THEN Append(st.out, Text(st.buffer))
    ELSE st.out

lex(b) == LexEnd(LexLoop(b, 1, LexInit))

----------------------------------------------------------------------------
(* Fonts: FontProperties, the font source and FontManager::get_fonts *)

DefaultFontProperties ==
    [font_family |-> "Arial Unicode MS", font_weight |-> "Normal", font_style |-> "Normal"]

EmptyCache == [k \in {} |-> k]

\* What the font source hands back for a key: the font matched for that key.
\* Each load leaks a fresh allocation (Box::leak), named here by its serial.
FontHandle(props, serial) == [key |-> props, id |-> serial]

\* a font manager that never consults its cache
get_fonts_NoCache(fm, props) ==
    LET h == FontHandle(props, fm.font_loads + 1)
    IN  [fm |-> [cached_fonts |-> (props :> h) @@ fm.cached_fonts,
                 font_loads |-> fm.font_loads + 1],
         font |-> h]

\* a font manager whose cache holds one entry: a miss evicts what was cached
get_fonts_Evicts(fm, props) ==
    IF props \in DOMAIN fm.cached_fonts
    THEN [fm |-> fm, font |-> fm.cached_fonts[props]]
    ELSE LET h == FontHandle(props, fm.font_loads + 1)
         IN  [fm |-> [cached_fonts |-> (props :> h), font_loads |-> fm.font_loads + 1],
              font |-> h]

\* fm is [cached_fonts, font_loads]; the result is the manager afterwards and
\* the handle returned
get_fonts(fm, props) ==
    IF props \in DOMAIN fm.cached_fonts
    THEN [fm |-> fm, font |-> fm.cached_fonts[props]]
    ELSE LET h == FontHandle(props, fm.font_loads + 1)
         IN  [fm |-> [cached_fonts |-> (props :> h) @@ fm.cached_fonts,
                      font_loads |-> fm.font_loads + 1],
              font |-> h]

(* Font metrics, as the outline font and the shaping face report them.  The *)
(* fonts are those of a 1000-units-per-em family; at 16 pt the pixel scale  *)
(* per font unit, scale.x / height_unscaled, is (16 * 96 / 72) / 1000 =     *)
(* 64 / 3000.                                                               *)
SCALE_NUM == 64
SCALE_DEN == 3000
SPACE_ADVANCE_UNITS == 250
HEIGHT_UNSCALED == 1150
BOLD_EXTRA_UNITS == 50

\* x_advance of one shaped glyph, in font units
XAdvance(c, font) ==
    (IF c = "m" THEN 700 ELSE 500)
    + (IF font.key.font_weight = "Bold" THEN BOLD_EXTRA_UNITS ELSE 0)

RECURSIVE SumAdvance(_, _, _)
SumAdvance(word, i, font) ==
    IF i > Len(word) THEN 0 ELSE XAdvance(word[i], font) + SumAdvance(word, i + 1, font)

\* word_width_in_px: the scaled sum of the advances, truncated
WordWidth(word, font) == (SumAdvance(word, 1, font) * SCALE_NUM) \div SCALE_DEN

\* space_width_in_px as u32
SpaceAdvance(font) == (SPACE_ADVANCE_UNITS * SCALE_NUM) \div SCALE_DEN

\* (font_height * 1.2) as u32, with font_height = HEIGHT_UNSCALED * scale factor
LineAdvance(font) == (HEIGHT_UNSCALED * SCALE_NUM * 12) \div (SCALE_DEN * 10)

----------------------------------------------------------------------------
(* str::split_whitespace *)

IsWhitespace(c) == c \in {" ", "\n", "\t"}

RECURSIVE SplitLoop(_, _, _, _)
SplitLoop(s, i, words, cur) ==
    IF i > Len(s)
    THEN IF cur # <<>> THEN Append(words, cur) ELSE words
    ELSE IF IsWhitespace(s[i])
    THEN SplitLoop(s, i + 1, IF cur # <<>> THEN Append(words, cur) ELSE words, <<>>)
    ELSE SplitLoop(s, i + 1, words, Append(cur, s[i]))

split_whitespace(s) == SplitLoop(s, 1, <<>>, <<>>)

----------------------------------------------------------------------------
(* The layout engine: Layout::new, Layout::word, Layout::token *)

Layout_new(window_width) ==
    [cursor_x |-> HSTEP, cursor_y |-> VSTEP, window_width |-> window_width,
     font_properties |-> DefaultFontProperties, font_size |-> DEFAULT_FONT_SIZE]

\* The state of one layout pass: the Layout struct, the display list being
\* built, the font manager, whether the pass has panicked, and whether one of
\* its u32 operations has wrapped (a build without overflow checks).
PassInit(window_width, fm) ==
    [layout |-> Layout_new(window_width), display_list |-> <<>>, fm |-> fm, panicked |-> FALSE,
     wrapped |-> FALSE]

GlyphRun(word, x, y, font, size) ==
    [glyphs |-> word, x |-> x, y |-> y, font |-> font, font_size |-> size]

\* a word step that never wraps
word_step_NoWrap(ps, word, font, checked) ==
    LET L == ps.layout
        w == WordWidth(word, font)
        nx == L.cursor_x + w + SpaceAdvance(font)
    IN  [ps EXCEPT !.layout.cursor_x = nx,
                   !.display_list = Append(@, GlyphRun(word, L.cursor_x, L.cursor_y, font, L.font_size))]

\* a word step that force-breaks a word wider than the line into two runs
word_step_SplitsWideWord(ps, word, font, checked) ==
    LET L == ps.layout
        w == WordWidth(word, font)
        brk == L.cursor_x + w >= L.window_width - HSTEP
        x == IF brk THEN HSTEP ELSE L.cursor_x
        y == IF brk THEN L.cursor_y + LineAdvance(font) ELSE L.cursor_y
        half == Len(word) \div 2
    IN  IF HSTEP + w > L.window_width /\ half > 0
        THEN [ps EXCEPT !.layout.cursor_x = HSTEP + WordWidth(SubSeq(word, half + 1, Len(word)), font)
                                            + SpaceAdvance(font),
                        !.layout.cursor_y = y + LineAdvance(font),
                        !.display_list = @ \o <<GlyphRun(SubSeq(word, 1, half), x, y, font, L.font_size),
                                                GlyphRun(SubSeq(word, half + 1, Len(word)), HSTEP,
                                                         y + LineAdvance(font), font, L.font_size)>>]
        ELSE [ps EXCEPT !.layout.cursor_x = x + w + SpaceAdvance(font),
                        !.layout.cursor_y = y,
                        !.display_list = Append(@, GlyphRun(word, x, y, font, L.font_size))]

\* a word step that returns to the left margin without moving down
word_step_NoLineAdvance(ps, word, font, checked) ==
    LET L == ps.layout
        w == WordWidth(word, font)
        brk == L.cursor_x + w >= L.window_width - HSTEP
        x == IF brk THEN HSTEP ELSE L.cursor_x
    IN  [ps EXCEPT !.layout.cursor_x = x + w + SpaceAdvance(font),
                   !.display_list = Append(@, GlyphRun(word, x, L.cursor_y, font, L.font_size))]

\* Layout::word: checked is the build's overflow-checks setting
word_step(ps, word, font, checked) ==
    LET L == ps.layout
        w == WordWidth(word, font)
        sum == U32Add(L.cursor_x, w)
        bound == U32Sub(L.window_width, HSTEP)
    IN  IF checked /\ (sum.overflow \/ bound.overflow)
        THEN [ps EXCEPT !.panicked = TRUE]
        ELSE LET brk == U32Ge(sum.val, bound.val)
                 adv == U32Add(L.cursor_y, LineAdvance(font))
             IN  IF brk /\ checked /\ adv.overflow
                 THEN [ps EXCEPT !.panicked = TRUE]
                 ELSE LET x == IF brk THEN HSTEP ELSE L.cursor_x
                          y == IF brk THEN adv.val ELSE L.cursor_y
                          step == U32Add(w, SpaceAdvance(font))
                          nx == U32Add(x, step.val)
                          dl == Append(ps.display_list, GlyphRun(word, x, y, font, L.font_size))
                      IN  IF checked /\ (step.overflow \/ nx.overflow)
                          THEN [ps EXCEPT !.panicked = TRUE,
                                          !.layout.cursor_x = x, !.layout.cursor_y = y,
                                          !.display_list = dl]
                          ELSE [ps EXCEPT !.layout.cursor_x = nx.val, !.layout.cursor_y = y,
                                          !.display_list = dl,
                                          !.wrapped = \/ @
                                                      \/ sum.overflow \/ bound.overflow
                                                      \/ (brk /\ adv.overflow)
                                                      \/ step.overflow \/ nx.overflow]

\* the loop over text.split_whitespace()
RECURSIVE WordsLoop(_, _, _, _, _)
WordsLoop(ps, words, i, font, checked) ==
    IF ps.panicked \/ i > Len(words)
    THEN ps
    ELSE WordsLoop(word_step(ps, words[i], font, checked), words, i + 1, font, checked)

\* a tag match whose "/b" arm resets the style instead of the weight
tag_step_CloseBoldSlip(props, name) ==
    IF name = <<"i">> THEN [props EXCEPT !.font_style = "Italic"]
    ELSE IF name = <<"/", "i">> THEN [props EXCEPT !.font_style = "Normal"]
    ELSE IF name = <<"b">> THEN [props EXCEPT !.font_weight = "Bold"]
    ELSE IF name = <<"/", "b">> THEN [props EXCEPT !.font_style = "Normal"]
    ELSE props

\* the match on a Tag's name
tag_step(props, name) ==
    IF name = <<"i">> THEN [props EXCEPT !.font_style = "Italic"]
    ELSE IF name = <<"/", "i">> THEN [props EXCEPT !.font_style = "Normal"]
    ELSE IF name = <<"b">> THEN [props EXCEPT !.font_weight = "Bold"]
    ELSE IF name = <<"/", "b">> THEN [props EXCEPT !.font_weight = "Normal"]
    ELSE props

\* one iteration of the loop over the tokens: the font is fetched first, for
\* the style in force before the token
token_step(ps, token, checked) ==
    LET got == get_fonts(ps.fm, ps.layout.font_properties)
        ps1 == [ps EXCEPT !.fm = got.fm]
    IN  IF token.kind = "Text"
        THEN WordsLoop(ps1, split_whitespace(token.s), 1, got.font, checked)
        ELSE [ps1 EXCEPT !.layout.font_properties = tag_step(ps.layout.font_properties, token.s)]

RECURSIVE TokenLoop(_, _, _, _)
TokenLoop(ps, toks, i, checked) ==
    IF ps.panicked \/ i > Len(toks)
    THEN ps
    ELSE TokenLoop(token_step(ps, toks[i], checked), toks, i + 1, checked)

\* Layout::new(window_width) followed by layout.token(tokens, font_manager)
layout_token(toks, window_width, fm, checked) ==
    TokenLoop(PassInit(window_width, fm), toks, 1, checked)

----------------------------------------------------------------------------
(* The scroll controller: reset_scroll, scrolldown, scrollup *)

\* display_list[len - 1].2 - height + VSTEP, evaluated left to right on u32
scroll_bound(dl, h, checked) ==
    LET d == U32Sub(dl[Len(dl)].y, h)
        s == U32Add(d.val, VSTEP)
    IN  [val |-> s.val,
         panicked |-> checked /\ (d.overflow \/ s.overflow)]

\* Browser::reset_scroll.  On an empty display list len() - 1 underflows:
\* checked builds panic on the subtraction, unchecked ones on the index
\* usize::MAX being out of bounds.
reset_scroll(s, dl, h, checked) ==
    IF dl = <<>>
    THEN [scroll |-> s, panicked |-> TRUE]
    ELSE LET b == scroll_bound(dl, h, checked)
         IN  IF b.panicked
             THEN [scroll |-> s, panicked |-> TRUE]
             ELSE [scroll |-> U32Max(0, U32Min(s, b.val)), panicked |-> FALSE]

\* a scrolldown without the emptiness test: indexing the last entry of an
\* empty list panics
scrolldown_NoEmptyTest(s, dl, h, checked) ==
    IF dl = <<>>
    THEN [scroll |-> s, panicked |-> TRUE]
    ELSE LET a == U32Add(s, SCROLL_STEP)
             b == scroll_bound(dl, h, checked)
         IN  IF (checked /\ a.overflow) \/ b.panicked
             THEN [scroll |-> s, panicked |-> TRUE]
             ELSE [scroll |-> U32Min(a.val, b.val), panicked |-> FALSE]

\* a scrollup that steps back without the clamp at 0
scrollup_NoClamp(s) == s - SCROLL_STEP

\* Browser::scrolldown
scrolldown(s, dl, h, checked) ==
    IF dl = <<>>
    THEN [scroll |-> s, panicked |-> FALSE]
    ELSE LET a == U32Add(s, SCROLL_STEP)
             b == scroll_bound(dl, h, checked)
         IN  IF (checked /\ a.overflow) \/ b.panicked
             THEN [scroll |-> s, panicked |-> TRUE]
             ELSE [scroll |-> U32Min(a.val, b.val), panicked |-> FALSE]

\* Browser::scrollup: max(0, scroll as i32 - 20) as u32.  The held value of a
\* u32 is its reading as i32, so the cast is the identity here.
scrollup(s) == IF s - SCROLL_STEP > 0 THEN s - SCROLL_STEP ELSE 0

----------------------------------------------------------------------------
(* The renderer, Browser::draw *)

\* x-height of the outlines, in font units: the glyphs of the model sit on
\* the baseline and rise this far above it
X_HEIGHT_UNITS == 500
OPAQUE == 255

\* px_bounds() of glyph k of a run drawn at scroll offset s: the pen starts at
\* start_x and moves by each glyph's scaled advance; the baseline is
\* cursor_y as i32 - scroll as i32
GlyphBounds(run, k, s) ==
    LET pen == run.x + (SumAdvance(SubSeq(run.glyphs, 1, k - 1), 1, run.font) * SCALE_NUM)
                           \div SCALE_DEN
        adv == (XAdvance(run.glyphs[k], run.font) * SCALE_NUM) \div SCALE_DEN
        rise == (X_HEIGHT_UNITS * SCALE_NUM) \div SCALE_DEN
        base == run.y - s
    IN  [min_x |-> pen, min_y |-> base - rise, w |-> adv, h |-> rise]

\* The (gx, gy) the rasterizer hands to the callback of outlined.draw: it
\* walks the whole box of the outline; the model keeps the four corners of
\* the box, its extreme pixels.
CoveragePixels(bounds) ==
    {<<gx, gy>> : gx \in {0, bounds.w - 1}, gy \in {0, bounds.h - 1}}

\* a callback without the test against the right edge: coverage past it
\* lands at the start of the next row
plot_NoRightTest(acc, bounds, p, w, h, flen) ==
    LET gx == p[1] + bounds.min_x
        gy == p[2] + bounds.min_y
        idx == (gy * w + gx) * 4
    IN  IF gx < 0 \/ gy < 0 \/ gy >= h
        THEN acc
        ELSE IF idx + 3 >= flen
        THEN [acc EXCEPT !.panicked = TRUE]
        ELSE [acc EXCEPT !.writes = @ \cup {[gx |-> gx, gy |-> gy, idx |-> idx, alpha |-> OPAQUE]}]

\* The callback of outlined.draw for one covered pixel p of a glyph: w and h
\* are the browser's width and height, flen the length of the frame.  An
\* index past the end of the frame panics.
plot(acc, bounds, p, w, h, flen) ==
    LET gx == p[1] + bounds.min_x
        gy == p[2] + bounds.min_y
        idx == (gy * w + gx) * 4
    IN  IF gx < 0 \/ gx >= w \/ gy < 0 \/ gy >= h
        THEN acc
        ELSE IF idx + 3 >= flen
        THEN [acc EXCEPT !.panicked = TRUE]
        ELSE [acc EXCEPT !.writes = @ \cup {[gx |-> gx, gy |-> gy, idx |-> idx, alpha |-> OPAQUE]}]

RECURSIVE PlotAll(_, _, _, _, _, _)
PlotAll(acc, bounds, pixels, w, h, flen) ==
    IF pixels = {} \/ acc.panicked
    THEN acc
    ELSE LET p == CHOOSE q \in pixels : TRUE
         IN  PlotAll(plot(acc, bounds, p, w, h, flen), bounds, pixels \ {p}, w, h, flen)

\* The loop over the glyphs of run i, from glyph k on.  v is the view:
\* [scroll, width, height, flen, checked]; acc is [rasterized, writes, panicked].
RECURSIVE GlyphLoop(_, _, _, _, _)
GlyphLoop(run, i, k, v, acc) ==
    IF acc.panicked \/ k > Len(run.glyphs)
    THEN acc
    ELSE LET low == U32Add(run.y, VSTEP)
             high == U32Add(v.scroll, v.height)
         IN  IF v.checked /\ low.overflow
             THEN [acc EXCEPT !.panicked = TRUE]
             ELSE IF U32Lt(low.val, v.scroll)
             THEN GlyphLoop(run, i, k + 1, v, acc)                            \* continue
             ELSE IF v.checked /\ high.overflow
             THEN [acc EXCEPT !.panicked = TRUE]
             ELSE IF U32Gt(run.y, high.val)
             THEN acc                                                         \* break
             ELSE LET bounds == GlyphBounds(run, k, v.scroll)
                  IN  GlyphLoop(run, i, k + 1, v,
                                PlotAll([acc EXCEPT !.rasterized = @ \cup {<<i, k>>}],
                                        bounds, CoveragePixels(bounds),
                                        v.width, v.height, v.flen))

\* The loop over the display list, from entry i on.  acc is
\* [visited, rasterized, writes, panicked].
RECURSIVE RunLoop(_, _, _, _)
RunLoop(dl, i, v, acc) ==
    IF acc.panicked \/ i > Len(dl)
    THEN acc
    ELSE LET g == GlyphLoop(dl[i], i, 1, v,
                            [rasterized |-> acc.rasterized, writes |-> acc.writes,
                             panicked |-> FALSE])
         IN  RunLoop(dl, i + 1, v,
                     [visited |-> Append(acc.visited, i),
                      rasterized |-> g.rasterized,
                      writes |-> g.writes,
                      panicked |-> g.panicked])

\* Browser::draw into a frame of flen bytes
draw(dl, s, w, h, flen, checked) ==
    RunLoop(dl, 1, [scroll |-> s, width |-> w, height |-> h, flen |-> flen, checked |-> checked],
            [visited |-> <<>>, rasterized |-> {}, writes |-> {}, panicked |-> FALSE])

----------------------------------------------------------------------------
(* Inputs *)

\* bounds of the model
MaxLen == 5            \* longest body handed to the tokenizer alone
MaxPieces == 3         \* longest document of the layout specification, in pieces
MaxBrowserPieces == 2  \* longest document of the browser specification, in pieces
MaxLoads == 2          \* Browser::load calls in one run
MaxScroll == 120       \* scrolldown is not taken at or beyond this offset

Widths == {30, 100, 200}
Heights == {60, 150}

RECURSIVE Concats(_, _)
Concats(pieces, n) ==
    IF n = 0
    THEN {<<>>}
    ELSE LET shorter == Concats(pieces, n - 1)
         IN  shorter \cup {d \o p : d \in shorter, p \in pieces}

LexAlphabet == {<<"<">>, <<">">>, <<"a">>, <<" ">>}
LexBodies == Concats(LexAlphabet, MaxLen)

LayoutPieces ==
    {<<"<", "b", ">">>, <<"<", "/", "b", ">">>, <<"<", "i", ">">>, <<"<", "/", "i", ">">>,
     <<"<", "p", ">">>, <<"x", " ">>, <<"m", "m", "m", "m", "m", " ">>,
     <<"m", "m", "m", "m", "m", "m", "m", " ">>}
\* the documents of the specification's examples: "<b>Hi</b> there", and a
\* bold word followed by a plain one
ExampleDocs ==
    {<<"<", "b", ">", "H", "i", "<", "/", "b", ">", " ", "t", "h", "e", "r", "e">>,
     <<"<", "b", ">", "x", "<", "/", "b", ">", "y">>}
LayoutDocs == Concats(LayoutPieces, MaxPieces) \cup ExampleDocs

BrowserPieces == {<<"x", " ">>, <<"m", "m", "m", "m", "m", " ">>}
BrowserDocs == Concats(BrowserPieces, MaxBrowserPieces)

----------------------------------------------------------------------------
(* The state machine *)

\* The pixel buffer's content: whether every byte of it holds 255, the value
\* frame.fill(255) stores, and the byte index of every pixel written since.
\* Pixels::new hands out a zeroed buffer.
ZeroedFrame == [filled |-> FALSE, px |-> {}]

FrameLen(w, h) == w * h * 4

\* frame.fill(255)
fill(f) == [filled |-> TRUE, px |-> {}]

\* Pixels::resize_buffer: the byte vector is truncated, or extended with zeros
resize_buffer(f, old_len, new_len) ==
    [filled |-> f.filled /\ new_len <= old_len,
     px |-> {i \in f.px : i + 3 < new_len}]

\* Browser::new(width, height) and Pixels::new(width, height, ..), in either
\* build profile
Init ==
    /\ overflow_checks \in BOOLEAN
    /\ width \in Widths
    /\ height \in Heights
    /\ scroll = 0
    /\ tokens = <<>>
    /\ display_list = <<>>
    /\ cached_fonts = EmptyCache
    /\ font_loads = 0
    /\ panicked = FALSE
    /\ body = <<>>
    /\ loads = 0
    /\ last_op = "new"
    /\ visited = <<>>
    /\ rasterized = {}
    /\ writes = {}
    /\ frame_width = width
    /\ frame_height = height
    /\ frame = ZeroedFrame
    /\ presented = ZeroedFrame

\* Browser::load, given the body the transport returned
Load(b) ==
    /\ ~panicked
    /\ \E toks \in {lex(b)} :
       \E pass \in {layout_token(toks, width,
                                 [cached_fonts |-> cached_fonts, font_loads |-> font_loads],
                                 overflow_checks)} :
           /\ body' = b
           /\ tokens' = toks
           /\ cached_fonts' = pass.fm.cached_fonts
           /\ font_loads' = pass.fm.font_loads
           /\ panicked' = pass.panicked
           /\ display_list' = IF pass.panicked THEN display_list ELSE pass.display_list
    /\ loads' = loads + 1
    /\ last_op' = "load"
    /\ visited' = <<>>
    /\ rasterized' = {}
    /\ writes' = {}
    /\ UNCHANGED <<overflow_checks, width, height, scroll, frame_width, frame_height,
                   frame, presented>>

\* a resize that keeps the display list it finds and only clamps the offset
resize_browser_KeepsLayout(w, h) ==
    /\ ~panicked
    /\ \E rs \in {reset_scroll(scroll, display_list, h, overflow_checks)} :
           /\ width' = w
           /\ height' = h
           /\ scroll' = rs.scroll
           /\ panicked' = rs.panicked
    /\ last_op' = IF w = width /\ h = height THEN "resize_same" ELSE "resize"
    /\ visited' = <<>>
    /\ rasterized' = {}
    /\ writes' = {}
    /\ UNCHANGED <<overflow_checks, tokens, body, loads, display_list, cached_fonts,
                   font_loads>>

\* Browser::resize_browser; the pixel buffer is the caller's
resize_browser(w, h) ==
    /\ ~panicked
    /\ \E pass \in {layout_token(tokens, w,
                                 [cached_fonts |-> cached_fonts, font_loads |-> font_loads],
                                 overflow_checks)} :
       \E dl \in {IF pass.panicked THEN display_list ELSE pass.display_list} :
       \E rs \in {reset_scroll(scroll, dl, h, overflow_checks)} :
           /\ width' = w
           /\ height' = h
           /\ cached_fonts' = pass.fm.cached_fonts
           /\ font_loads' = pass.fm.font_loads
           /\ display_list' = dl
           /\ scroll' = IF pass.panicked THEN scroll ELSE rs.scroll
           /\ panicked' = (pass.panicked \/ rs.panicked)
    /\ last_op' = IF w = width /\ h = height THEN "resize_same" ELSE "resize"
    /\ visited' = <<>>
    /\ rasterized' = {}
    /\ writes' = {}
    /\ UNCHANGED <<overflow_checks, tokens, body, loads>>

\* a resize branch that leaves the pixel buffer at its old size
Resize_KeepsBuffer(w, h) ==
    /\ UNCHANGED <<frame_width, frame_height, frame, presented>>
    /\ resize_browser(w, h)

\* The window_resized branch of the event loop: pixels.resize_buffer, then
\* browser.resize_browser, both with the new size.  When resize_surface or
\* resize_buffer fails the handler returns before either assignment: a step
\* that changes none of the variables.
Resize(w, h) ==
    /\ frame_width' = w
    /\ frame_height' = h
    /\ frame' = resize_buffer(frame, FrameLen(frame_width, frame_height), FrameLen(w, h))
    /\ UNCHANGED presented
    /\ resize_browser(w, h)

\* The ArrowDown branch: Browser::scrolldown
ScrollDown ==
    /\ ~panicked
    /\ U32Lt(scroll, MaxScroll)
    /\ \E r \in {scrolldown(scroll, display_list, height, overflow_checks)} :
           /\ scroll' = r.scroll
           /\ panicked' = r.panicked
    /\ last_op' = "scrolldown"
    /\ visited' = <<>>
    /\ rasterized' = {}
    /\ writes' = {}
    /\ UNCHANGED <<overflow_checks, width, height, tokens, display_list, cached_fonts,
                   font_loads, body, loads, frame_width, frame_height, frame, presented>>

\* The ArrowUp branch: Browser::scrollup
ScrollUp ==
    /\ ~panicked
    /\ scroll' = scrollup(scroll)
    /\ last_op' = "scrollup"
    /\ visited' = <<>>
    /\ rasterized' = {}
    /\ writes' = {}
    /\ UNCHANGED <<overflow_checks, width, height, tokens, display_list, cached_fonts,
                   font_loads, panicked, body, loads, frame_width, frame_height, frame,
                   presented>>

\* Browser::draw over the current display list, into a scratch frame of the
\* pixel buffer's size; the buffer's own content is followed by
\* RedrawRequested
Draw ==
    /\ ~panicked
    /\ \E r \in {draw(display_list, scroll, width, height,
                      FrameLen(frame_width, frame_height), overflow_checks)} :
           /\ visited' = r.visited
           /\ rasterized' = r.rasterized
           /\ writes' = r.writes
           /\ panicked' = r.panicked
    /\ last_op' = "draw"
    /\ UNCHANGED <<overflow_checks, width, height, scroll, tokens, display_list,
                   cached_fonts, font_loads, body, loads, frame_width, frame_height,
                   frame, presented>>

LoadDocument == loads < MaxLoads /\ \E b \in BrowserDocs : Load(b)
ResizeWindow == \E w \in Widths, h \in Heights : Resize(w, h)

Next == LoadDocument \/ ScrollDown \/ ScrollUp \/ ResizeWindow \/ Draw

Spec == Init /\ [][Next]_vars

(* The layout engine alone: one document, loaded as main does right after  *)
(* Browser::new, then laid out again at other widths.                      *)
LayoutLoad == loads = 0 /\ \E b \in LayoutDocs : Load(b)
LayoutResize == loads = 1 /\ \E w \in Widths : Resize(w, height)

NextLayout == LayoutLoad \/ LayoutResize

InitLayout == Init /\ height = 60

SpecLayout == InitLayout /\ [][NextLayout]_vars

(* The tokenizer alone: Browser::lex applied to a body.  The browser is the *)
(* one main builds; the body is the input.                                 *)
InitLex ==
    /\ overflow_checks \in BOOLEAN
    /\ width = MAIN_WIDTH
    /\ height = MAIN_HEIGHT
    /\ scroll = 0
    /\ tokens = <<>>
    /\ display_list = <<>>
    /\ cached_fonts = EmptyCache
    /\ font_loads = 0
    /\ panicked = FALSE
    /\ body \in LexBodies
    /\ loads = 0
    /\ last_op = "new"
    /\ visited = <<>>
    /\ rasterized = {}
    /\ writes = {}
    /\ frame_width = width
    /\ frame_height = height
    /\ frame = ZeroedFrame
    /\ presented = ZeroedFrame

Lex ==
    /\ last_op = "new"
    /\ tokens' = lex(body)
    /\ last_op' = "lex"
    /\ UNCHANGED <<overflow_checks, width, height, scroll, display_list, cached_fonts,
                   font_loads, panicked, body, loads, visited, rasterized, writes,
                   frame_width, frame_height, frame, presented>>

NextLex == Lex

SpecLex == InitLex /\ [][NextLex]_vars

(* The event loop of main: the document is loaded once, then the closure   *)
(* handles redraw requests and input.  One pass of the input branch may     *)
(* scroll down, scroll up and resize in that order; the steps below take    *)
(* them one at a time, in every order.                                      *)
LoopDocs ==
    {<<>>, <<"x", " ">>,
     <<"m", "m", "m", "m", "m", " ", "m", "m", "m", "m", "m", " ">>}

\* the sizes the window takes
LoopSizes == {<<100, 60>>, <<200, 150>>}

\* The RedrawRequested branch: frame.fill(255), browser.draw(frame), then
\* pixels.render(), which presents the frame or fails (the handler then asks
\* the loop to exit and returns)
RedrawRequested ==
    /\ ~panicked
    /\ loads = 1
    /\ \E cleared \in {fill(frame)} :
       \E r \in {draw(display_list, scroll, width, height,
                      FrameLen(frame_width, frame_height), overflow_checks)} :
       \E drawn \in {[cleared EXCEPT !.px = @ \cup {p.idx : p \in r.writes}]} :
       \E rendered \in BOOLEAN :
           /\ visited' = r.visited
           /\ rasterized' = r.rasterized
           /\ writes' = r.writes
           /\ panicked' = r.panicked
           /\ frame' = drawn
           /\ presented' = IF r.panicked \/ ~rendered THEN presented ELSE drawn
    /\ last_op' = "redraw"
    /\ UNCHANGED <<overflow_checks, width, height, scroll, tokens, display_list,
                   cached_fonts, font_loads, body, loads, frame_width, frame_height>>

LoopLoad == loads = 0 /\ \E b \in LoopDocs : Load(b)
ArrowDownHeld == loads = 1 /\ ScrollDown
ArrowUpHeld == loads = 1 /\ ScrollUp
WindowResized == loads = 1 /\ \E size \in LoopSizes : Resize(size[1], size[2])

NextLoop == LoopLoad \/ RedrawRequested \/ ArrowDownHeld \/ ArrowUpHeld \/ WindowResized

\* main builds the browser and the pixel buffer with one size
InitLoop == Init /\ <<width, height>> \in LoopSizes

SpecLoop == InitLoop /\ [][NextLoop]_vars

----------------------------------------------------------------------------
(* Markup, read without the tokenizer *)

CountBefore(b, i, c) == Cardinality({j \in 1..(i - 1) : b[j] = c})

\* '<' and '>' occur only as balanced, non-nested <...> pairs
WellFormedMarkup(b) ==
    /\ \A i \in 1..(Len(b) + 1) :
          LET open == CountBefore(b, i, "<") - CountBefore(b, i, ">")
          IN  open \in {0, 1}
    /\ CountBefore(b, Len(b) + 1, "<") = CountBefore(b, Len(b) + 1, ">")

\* the positions of b that lie outside every <...> span
OutsideTags(b) ==
    {i \in 1..Len(b) : /\ b[i] \notin {"<", ">"}
                       /\ CountBefore(b, i, "<") = CountBefore(b, i, ">")}

\* the elements of b at the positions idx, in order
SubSeqAt(b, idx) ==
    [k \in 1..Cardinality(idx) |->
        b[CHOOSE i \in idx : Cardinality({j \in idx : j < i}) = k - 1]]

\* b with every <...> span removed
StripTags(b) == SubSeqAt(b, OutsideTags(b))

RECURSIVE ConcatText(_, _)
ConcatText(toks, i) ==
    IF i > Len(toks) THEN <<>>
    ELSE (IF toks[i].kind = "Text" THEN toks[i].s ELSE <<>>) \o ConcatText(toks, i + 1)

----------------------------------------------------------------------------
(* Claims *)

\* C4: tokenizer round trip.  For every body in which '<' and '>' occur only
\* as balanced, non-nested pairs, the contents of the Text tokens the
\* tokenizer returns, concatenated in order, are the body with every <...>
\* span removed.
C4_TokenizerRoundTrip ==
    (last_op = "lex" /\ WellFormedMarkup(body))
        => ConcatText(tokens, 1) = StripTags(body)

\* a well-formed body with text, a named tag, and text again has been tokenized
C4_Witness ==
    /\ last_op = "lex"
    /\ WellFormedMarkup(body)
    /\ Len(tokens) = 3
    /\ tokens[1].kind = "Text" /\ tokens[3].kind = "Text"
    /\ tokens[2] = Tag(<<"a">>)

----------------------------------------------------------------------------
(* Scrolling claims *)

Max(a, b) == IF a >= b THEN a ELSE b

\* max(0, last_run_baseline_y - viewport_height + line_step), over the integers;
\* 0 for an empty display list
MaxScrollOf(dl, h) ==
    IF dl = <<>> THEN 0 ELSE Max(0, dl[Len(dl)].y - h + VSTEP)

Resized == last_op \in {"resize", "resize_same"}

\* C1: scroll clamp invariant.  After every scroll_down / scroll_up call the
\* call has completed and 0 <= scroll_offset <= max_scroll, with max_scroll =
\* max(0, last_run_baseline_y - viewport_height + VSTEP).
C1_ScrollClamp ==
    last_op \in {"scrolldown", "scrollup"}
        => /\ ~panicked
           /\ 0 <= scroll
           /\ scroll <= MaxScrollOf(display_list, height)

\* C2: resize re-clamps scroll.  After every resize the call has completed
\* and 0 <= scroll_offset <= max(0, content_height - viewport_height + VSTEP)
\* for the new display list and the new viewport height.
C2_ResizeReclamps ==
    Resized
        => /\ ~panicked
           /\ 0 <= scroll
           /\ scroll <= MaxScrollOf(display_list, height)

\* C3: a fresh document load resets scroll to 0.  After every load that
\* succeeds, scroll_offset = 0.
C3_LoadResetsScroll ==
    (last_op = "load" /\ ~panicked) => scroll = 0

----------------------------------------------------------------------------
(* Renderer claims *)

\* C10: culling with early exit.  In a draw, no glyph of a run with
\* baseline_y + VSTEP < scroll_offset is rasterized, and once a run with
\* baseline_y > scroll_offset + viewport_height is met no later run is
\* visited.
C10_CullEarlyExit ==
    (last_op = "draw" /\ ~panicked)
        => /\ \A i \in 1..Len(display_list) :
                 display_list[i].y + VSTEP < scroll
                     => \A k \in 1..Len(display_list[i].glyphs) : <<i, k>> \notin rasterized
           /\ \A i \in 1..Len(display_list) :
                 display_list[i].y > scroll + height
                     => \A n \in 1..Len(visited) : visited[n] <= i

----------------------------------------------------------------------------
(* Layout claims *)

\* the latest step ran a layout pass to its end and the handler returned
LaidOut == last_op \in {"load", "resize", "resize_same"} /\ ~panicked

RunWidth(run) == WordWidth(run.glyphs, run.font)

\* the whitespace-delimited words of the Text tokens, in token and word order
RECURSIVE AllWords(_, _)
AllWords(toks, i) ==
    IF i > Len(toks) THEN <<>>
    ELSE (IF toks[i].kind = "Text" THEN split_whitespace(toks[i].s) ELSE <<>>)
         \o AllWords(toks, i + 1)

\* for each of those words, the index of the token it comes from
RECURSIVE WordOwners(_, _)
WordOwners(toks, i) ==
    IF i > Len(toks) THEN <<>>
    ELSE (IF toks[i].kind = "Text"
          THEN [k \in 1..Len(split_whitespace(toks[i].s)) |-> i]
          ELSE <<>>)
         \o WordOwners(toks, i + 1)

\* the name of the most recent tag before token p whose name is in names, or
\* <<>> when there is none
LastTagAmong(toks, p, names) ==
    LET hits == {j \in 1..(p - 1) : toks[j].kind = "Tag" /\ toks[j].s \in names}
    IN  IF hits = {} THEN <<>>
        ELSE toks[CHOOSE j \in hits : \A k \in hits : k <= j].s

\* C5 as stated: every GlyphRun satisfies origin_x + width <= viewport_width,
\* except a run whose word alone is wider than the viewport.  (Stated on the
\* viewports at least as wide as the left margin, where viewport_width -
\* HSTEP does not underflow.)
C5_LineWrapAsStated ==
    (LaidOut /\ width >= HSTEP)
        => \A i \in 1..Len(display_list) :
              \/ display_list[i].x + RunWidth(display_list[i]) <= width
              \/ RunWidth(display_list[i]) > width

\* C5, amended: every GlyphRun satisfies origin_x + width <= viewport_width,
\* except a run whose word does not fit between the left margin and the
\* right edge of the viewport (HSTEP + word_width > viewport_width).
C5_LineWrap ==
    LaidOut
        => \A i \in 1..Len(display_list) :
              \/ display_list[i].x + RunWidth(display_list[i]) <= width
              \/ HSTEP + RunWidth(display_list[i]) > width

\* two words on the first line and a third wrapped to the next because it
\* would have passed the right margin, every run inside the viewport
C5_Witness ==
    /\ LaidOut
    /\ width = 200
    /\ Len(display_list) = 3
    /\ display_list[2].y = display_list[1].y
    /\ display_list[3].y > display_list[2].y
    /\ display_list[3].x = HSTEP
    /\ \A i \in 1..3 : display_list[i].x + RunWidth(display_list[i]) <= width

\* C6: words are atomic.  Layout emits exactly one GlyphRun per
\* whitespace-delimited word of each Text token, in token and word order; a
\* document that is a single word wider than the viewport yields exactly one
\* run, at origin_x = HSTEP.
C6_WordsAtomic ==
    LaidOut
        => LET ws == AllWords(tokens, 1)
           IN  /\ Len(display_list) = Len(ws)
               /\ \A i \in 1..Len(ws) : display_list[i].glyphs = ws[i]
               /\ (Len(ws) = 1 /\ RunWidth(display_list[1]) > width)
                      => display_list[1].x = HSTEP

\* a single word wider than a viewport that is wider than the margin has been
\* laid out
C6_Witness ==
    /\ LaidOut
    /\ width >= HSTEP
    /\ Len(AllWords(tokens, 1)) = 1
    /\ Len(display_list) = 1
    /\ RunWidth(display_list[1]) > width
    /\ display_list[1].x = HSTEP

\* C7: style scoping.  Each word's run uses the font resolved for the style
\* in force at the word: bold iff the most recent preceding tag among "b" and
\* "/b" is "b", italic iff the most recent preceding tag among "i" and "/i"
\* is "i"; no other tag changes the style.
C7_StyleScoping ==
    LaidOut
        => LET owner == WordOwners(tokens, 1)
           IN  /\ Len(owner) = Len(display_list)
               /\ \A r \in 1..Len(display_list) :
                     LET key == display_list[r].font.key
                     IN  /\ (key.font_weight = "Bold")
                                <=> (LastTagAmong(tokens, owner[r], {<<"b">>, <<"/", "b">>}) = <<"b">>)
                         /\ (key.font_weight \in {"Bold", "Normal"})
                         /\ (key.font_style = "Italic")
                                <=> (LastTagAmong(tokens, owner[r], {<<"i">>, <<"/", "i">>}) = <<"i">>)
                         /\ (key.font_style \in {"Italic", "Normal"})
                         /\ key.font_family = DefaultFontProperties.font_family

\* Tag("b"), Text, Tag("/b"), Text has been laid out: two runs, only the
\* first of them bold
C7_Witness ==
    /\ LaidOut
    /\ Len(tokens) = 4
    /\ tokens[1] = Tag(<<"b">>) /\ tokens[2].kind = "Text"
    /\ tokens[3] = Tag(<<"/", "b">>) /\ tokens[4].kind = "Text"
    /\ Len(display_list) = 2
    /\ display_list[1].font.key.font_weight = "Bold"
    /\ display_list[2].font.key.font_weight = "Normal"

\* C8: layout determinism.  A second layout of the same tokens at the same
\* viewport width, with the font cache the first one left, yields the same
\* display list.
C8_LayoutDeterminism ==
    [][(last_op' = "resize_same" /\ ~panicked') => display_list' = display_list]_vars

\* a document in two fonts has been laid out a second time at the same size
C8_Witness ==
    /\ last_op = "resize_same"
    /\ ~panicked
    /\ Len(display_list) >= 2
    /\ \E i, j \in 1..Len(display_list) : display_list[i].font # display_list[j].font

\* C9: display list order is reading order.  baseline_y is non-decreasing
\* along the list, and of two consecutive runs on one baseline the second
\* starts at the first's origin_x + width + space advance, to its right.
C9_ReadingOrder ==
    \A i \in 1..(Len(display_list) - 1) :
        LET a == display_list[i]
            b == display_list[i + 1]
        IN  /\ b.y >= a.y
            /\ (b.y = a.y) => /\ b.x = a.x + RunWidth(a) + SpaceAdvance(a.font)
                              /\ b.x >= a.x

\* a display list with two runs on one line followed by a run on the next
C9_Witness ==
    /\ LaidOut
    /\ Len(display_list) >= 3
    /\ display_list[2].y = display_list[1].y
    /\ display_list[2].x > display_list[1].x
    /\ display_list[3].y > display_list[2].y

----------------------------------------------------------------------------
(* The renderer's writes *)

\* Every pixel the rasterizer covered in the latest draw, in frame coordinates
Covered ==
    UNION {LET bounds == GlyphBounds(display_list[g[1]], g[2], scroll)
           IN  {<<q[1] + bounds.min_x, q[2] + bounds.min_y>> : q \in CoveragePixels(bounds)}
           : g \in rasterized}

InViewport(q) == q[1] >= 0 /\ q[1] < width /\ q[2] >= 0 /\ q[2] < height

\* C11: every pixel a draw writes lies in [0, width) x [0, height) and its
\* four bytes lie below width * height * 4; its alpha byte is set to 255;
\* the pixels written are exactly the covered pixels inside the viewport, so
\* coverage that falls outside is dropped without a write.
C11_RendererBounds ==
    (last_op = "draw" /\ ~panicked)
        => /\ \A p \in writes :
                  /\ InViewport(<<p.gx, p.gy>>)
                  /\ p.idx >= 0
                  /\ p.idx + 3 < width * height * 4
                  /\ p.alpha = 255
           /\ {<<p.gx, p.gy>> : p \in writes} = {q \in Covered : InViewport(q)}

\* a draw that wrote pixels and dropped coverage above the top edge and past
\* the right edge
C11_Witness ==
    /\ last_op = "draw"
    /\ ~panicked
    /\ writes # {}
    /\ \E q \in Covered : q[2] < 0
    /\ \E q \in Covered : q[1] >= width

----------------------------------------------------------------------------
(* The font cache *)

\* C12: the font source is asked to load at most once per key (the loads
\* counted equal the keys cached, at every step); a key once cached is never
\* removed and keeps the handle of its first load; every handle a layout pass
\* put into the display list is the cached handle of its key.
C12_FontCacheUniqueness ==
    [][/\ \A k \in DOMAIN cached_fonts :
              k \in DOMAIN cached_fonts' /\ cached_fonts'[k] = cached_fonts[k]
       /\ font_loads' = Cardinality(DOMAIN cached_fonts')
       /\ \A i \in 1..Len(display_list') :
              /\ display_list'[i].font.key \in DOMAIN cached_fonts'
              /\ display_list'[i].font = cached_fonts'[display_list'[i].font.key]]_vars

\* a second layout pass over a document in two styles: every get_fonts call
\* of the pass was a cache hit
C12_Witness ==
    /\ last_op \in {"resize", "resize_same"}
    /\ ~panicked
    /\ font_loads >= 2
    /\ \E i, j \in 1..Len(display_list) : display_list[i].font # display_list[j].font

----------------------------------------------------------------------------
(* Resize *)

\* C13: a completed resize leaves the tokens as they were, stores the size
\* it was given (the size the pixel buffer was resized to in the same
\* branch), and leaves as display list the layout of the retained tokens at
\* the new width, whatever the display list was before.
C13_ResizeRelayouts ==
    [][(Resized' /\ ~panicked')
           => /\ tokens' = tokens
              /\ width' = frame_width'
              /\ height' = frame_height'
              /\ display_list' = layout_token(tokens, width',
                                              [cached_fonts |-> cached_fonts',
                                               font_loads |-> font_loads'],
                                              overflow_checks').display_list]_vars

\* a completed resize to another width that moved a run
C13_Witness ==
    /\ last_op = "resize"
    /\ ~panicked
    /\ Len(display_list) >= 2
    /\ display_list # layout_token(tokens, 100,
                                   [cached_fonts |-> cached_fonts, font_loads |-> font_loads],
                                   overflow_checks).display_list

----------------------------------------------------------------------------
(* Scrolling *)

\* C14: scroll_down on an empty display list completes and leaves the scroll
\* offset, the tokens, the display list and the viewport size as they were.
C14_ScrollDownEmptyNoOp ==
    [][(last_op' = "scrolldown" /\ display_list = <<>>)
           => /\ ~panicked'
              /\ UNCHANGED <<scroll, tokens, display_list, width, height>>]_vars

\* scroll_down on a browser whose document is empty, at an offset a longer
\* document left behind
C14_Witness ==
    /\ last_op = "scrolldown"
    /\ display_list = <<>>
    /\ loads >= 1
    /\ scroll > 0

\* C15: scroll_up takes the offset s to s - 20 when s >= 20 and to 0
\* otherwise; the result is never negative and nothing else changes.
C15_ScrollUp ==
    [][last_op' = "scrollup"
           => /\ scroll' = (IF scroll >= 20 THEN scroll - 20 ELSE 0)
              /\ scroll' >= 0
              /\ ~panicked'
              /\ UNCHANGED <<tokens, display_list, width, height, cached_fonts,
                             font_loads>>]_vars

\* scroll_up has stepped back to an offset below one step, from which the
\* next scroll_up clamps to 0
C15_Witness ==
    /\ last_op = "scrollup"
    /\ scroll > 0
    /\ scroll < SCROLL_STEP

----------------------------------------------------------------------------
(* Word placement *)

\* the cursor before run i is placed: (HSTEP, VSTEP) at the start of a pass,
\* then the previous run's origin_x + width + space advance on its baseline
CursorBefore(dl, i) ==
    IF i = 1
    THEN [x |-> HSTEP, y |-> VSTEP]
    ELSE [x |-> dl[i - 1].x + RunWidth(dl[i - 1]) + SpaceAdvance(dl[i - 1].font),
          y |-> dl[i - 1].y]

\* C16: word placement rule.  With the cursor at (cx, cy), a word of width w
\* is broken onto a new line iff cx + w >= viewport_width - HSTEP; then its
\* run is at (HSTEP, cy + trunc(1.2 * line_height)), otherwise at (cx, cy);
\* the cursor starts at (HSTEP, VSTEP) and moves to the run's origin_x + w +
\* space advance, so words that fit on the first line have baseline_y VSTEP.
C16_WordPlacement ==
    LaidOut
        => \A i \in 1..Len(display_list) :
               LET c == CursorBefore(display_list, i)
                   run == display_list[i]
               IN  IF c.x + RunWidth(run) >= width - HSTEP
                   THEN run.x = HSTEP /\ run.y = c.y + LineAdvance(run.font)
                   ELSE run.x = c.x /\ run.y = c.y

----------------------------------------------------------------------------
(* The tokenizer on arbitrary input *)

IsBracket(c) == c \in {"<", ">"}
NotBracket(c) == ~IsBracket(c)

\* the position of the last '<' of b, 0 when there is none
LastOpen(b) ==
    IF \E p \in 1..Len(b) : b[p] = "<"
    THEN CHOOSE p \in 1..Len(b) : b[p] = "<" /\ \A q \in (p + 1)..Len(b) : b[q] # "<"
    ELSE 0

\* b ends inside a tag: its last '<' has no '>' after it
EndsInsideTag(b) ==
    /\ LastOpen(b) > 0
    /\ \A q \in (LastOpen(b) + 1)..Len(b) : b[q] # ">"

\* the contents of all tokens from the i-th on, concatenated
RECURSIVE Flatten(_, _)
Flatten(toks, i) ==
    IF i > Len(toks) THEN <<>> ELSE toks[i].s \o Flatten(toks, i + 1)

IsToken(t) ==
    /\ DOMAIN t = {"kind", "s"}
    /\ t.kind \in {"Tag", "Text"}
    /\ DOMAIN t.s = 1..Len(t.s)

\* C17: the tokenizer is total, and on a body that ends inside a tag the
\* characters after the last '<' produce no token while everything before it
\* is emitted: the tokens are the tokens of the body cut after that '<', and
\* their contents together are the non-bracket characters before it.  On any
\* other body no character is lost.
C17_UnterminatedTag ==
    (last_op = "lex")
        => /\ \A i \in 1..Len(tokens) : IsToken(tokens[i])
           /\ IF EndsInsideTag(body)
              THEN /\ Flatten(tokens, 1)
                         = SelectSeq(SubSeq(body, 1, LastOpen(body) - 1), NotBracket)
                   /\ tokens = lex(SubSeq(body, 1, LastOpen(body)))
              ELSE Flatten(tokens, 1) = SelectSeq(body, NotBracket)

\* a body with tokens before its unterminated tag and characters inside it
C17_Witness ==
    /\ last_op = "lex"
    /\ EndsInsideTag(body)
    /\ LastOpen(body) < Len(body)
    /\ Len(tokens) >= 2

\* b[p] is a '<' and b[q] the next '>' after it
SpanAt(b, p, q) ==
    /\ p < q
    /\ b[p] = "<"
    /\ b[q] = ">"
    /\ \A r \in (p + 1)..(q - 1) : b[r] # ">"

\* position k of b lies in a <...> span, brackets included
InSpan(b, k) ==
    \E p \in 1..k, q \in k..Len(b) : SpanAt(b, p, q)

\* t is exactly the characters between a '<' of b and the next '>' after it
TagContentOK(b, t) ==
    \E p \in 1..Len(b), q \in 1..Len(b) : SpanAt(b, p, q) /\ t = SubSeq(b, p + 1, q - 1)

\* t is a non-empty stretch of b that lies outside every <...> span
TextContentOK(b, t) ==
    /\ t # <<>>
    /\ \E i \in 1..Len(b), j \in 1..Len(b) :
           /\ i <= j
           /\ t = SubSeq(b, i, j)
           /\ \A k \in i..j : ~InSpan(b, k)

\* C18: Tag/Text separation.  For every body, stray '>' and '<' inside an
\* open tag included, every Tag token holds exactly the characters between a
\* '<' and the next '>' after it, and every Text token is non-empty and holds
\* only characters outside every <...> span.
C18_TagTextSeparation ==
    (last_op = "lex")
        => \A i \in 1..Len(tokens) :
               IF tokens[i].kind = "Tag"
               THEN TagContentOK(body, tokens[i].s)
               ELSE TextContentOK(body, tokens[i].s)

----------------------------------------------------------------------------
(* Layout at every width *)

\* C20: for every width passed to load or resize, widths below HSTEP
\* included, and every token sequence, the layout pass computes
\* viewport_width - HSTEP and its cursor arithmetic without u32 underflow or
\* overflow (no panic with overflow checks, no wrapped value without) and
\* returns a display list.
C20_LayoutDefined ==
    (last_op \in {"load", "resize", "resize_same"})
        => LET pass == layout_token(tokens, width,
                                    [cached_fonts |-> cached_fonts, font_loads |-> font_loads],
                                    overflow_checks)
           IN  ~pass.panicked /\ ~pass.wrapped

----------------------------------------------------------------------------
(* The pixel buffer across events *)

\* C19: buffer / viewport agreement.  At every step of the event loop the
\* pixel buffer has the browser's width and height, so a draw finds exactly
\* width * height * 4 bytes; after a redraw the buffer holds white and the
\* pixels of that draw only (it was cleared before the draw); and what is
\* presented changes only in a redraw whose draw completed, to the frame
\* that draw left.
C19_BufferViewportAgreement ==
    [][/\ frame_width' = width' /\ frame_height' = height'
       /\ (last_op' = "redraw")
              => /\ FrameLen(frame_width, frame_height) = width * height * 4
                 /\ frame'.filled
                 /\ frame'.px = {p.idx : p \in writes'}
       /\ (presented' # presented)
              => /\ last_op' = "redraw"
                 /\ ~panicked'
                 /\ presented' = frame'
                 /\ {<<p.gx, p.gy>> : p \in writes'} = {q \in Covered' : InViewport(q)'}]_vars

\* a redraw at the second window size and a non-zero offset that wrote
\* pixels and was presented
C19_Witness ==
    /\ last_op = "redraw"
    /\ ~panicked
    /\ frame_width # 100
    /\ scroll > 0
    /\ writes # {}
    /\ presented = frame

====
